---- MODULE Spec2Model ----
(***************************************************************************)
(* Model of dags/utils/dataproc.py: the DataProcHelper class and the three *)
(* sub-DAG builders moz_dataproc_pyspark_runner, moz_dataproc_jar_runner   *)
(* and moz_dataproc_scriptrunner.                                          *)
(*                                                                         *)
(* Python values are tagged records so that None, the empty string, the    *)
(* empty list and the empty mapping stay distinct, as they are for the     *)
(* code's `is None` tests and truthiness tests.                            *)
(***************************************************************************)
EXTENDS Integers, Sequences, FiniteSets, TLC

VARIABLES
    call,       \* the last builder call: [kind, args], or NoCall
    outcome,    \* "none" | "returned" | "AirflowException" | "CredentialLookupError"
    dag,        \* the DAG the last call returned, or NoDag
    extern,     \* external calls the last call made, in program order
    ti,         \* per task of dag: "none" | "running" | "success" (engine side)
    prev,       \* the call before the last one, with its result (SpecShare)
    heap,       \* list objects by identity -> contents (SpecShare)
    envIn,      \* input of _format_envvar (SpecEnv)
    envOut      \* its result, or None before it ran (SpecEnv)

vars == <<call, outcome, dag, extern, ti, prev, heap, envIn, envOut>>

---------------------------------------------------------------------------
(* Python values *)

None == [t |-> "None"]
Str(s) == [t |-> "str", v |-> s]
List(l) == [t |-> "list", v |-> l]
\* a dict is its items in insertion (= iteration) order, keys distinct
Dict(items) == [t |-> "dict", v |-> items]
\* a reference to a list object; its contents live in heap
Ref(o) == [t |-> "ref", v |-> o]

\* bool(x) as used by `if x:` and `x or y`
Truthy(x) ==
    CASE x.t = "None" -> FALSE
      [] x.t = "str"  -> x.v # ""
      [] x.t = "list" -> x.v # <<>>
      [] x.t = "dict" -> x.v # <<>>
      [] OTHER        -> TRUE

\* what '{}'.format(x) substitutes for x
Format(x) == IF x = None THEN "None" ELSE x.v

\* sep.join(strs)
RECURSIVE Join(_, _)
Join(sep, strs) ==
    IF strs = <<>> THEN ""
    ELSE IF Len(strs) = 1 THEN strs[1]
    ELSE strs[1] \o sep \o Join(sep, Tail(strs))

\* zip(a, b): pairs up to the shorter length
Zip(a, b) ==
    LET n == IF Len(a) <= Len(b) THEN Len(a) ELSE Len(b)
    IN  [i \in 1..n |-> <<a[i], b[i]>>]

\* d[key] = value on a dict kept as a function from keys
DictSet(d, key, value) ==
    [k \in (DOMAIN d) \cup {key} |-> IF k = key THEN value ELSE d[k]]

EmptyProps == [k \in {} |-> None]

---------------------------------------------------------------------------
(* External collaborators: what the code calls, recorded in program order *)

NoCall == [kind |-> "none"]
NoDag == [dag_id |-> "none"]

\* GoogleCloudBaseHook(gcp_conn_id=...): reads the connection gcp_conn_id
GoogleCloudBaseHook(gcp_conn_id) ==
    [gcp_conn_id |-> gcp_conn_id, project_id |-> Str("airflow-dataproc")]

GcpHookEvent(gcp_conn_id) ==
    [fn |-> "GoogleCloudBaseHook", conn_id |-> gcp_conn_id]

\* AwsHook(aws_conn_id).get_credentials(): reads the credential store
AwsLookupEvent(aws_conn_id, creds) ==
    [fn |-> "AwsHook.get_credentials", conn_id |-> aws_conn_id, result |-> creds]

\* outcomes of the lookup: a triple (access key, secret key, token), any
\* field possibly None, or a failure
CredFail == [ok |-> FALSE]
CredTriple(a, s, t) == [ok |-> TRUE, triple |-> <<a, s, t>>]

CredOutcomes ==
    {CredFail} \cup
    {CredTriple(a, s, t) :
        a \in {None, Str("AKIA")},
        s \in {None, Str("SECRET")},
        t \in {None, Str(""), Str("TOKEN")}}

---------------------------------------------------------------------------
(* class DataProcHelper *)

\* __init__: stores its arguments and opens the GCP connection hook
DataProcHelper(a) ==
    [cluster_name |-> a.cluster_name,
     num_workers |-> a.num_workers,
     image_version |-> a.image_version,
     zone |-> a.zone,
     idle_delete_ttl |-> a.idle_delete_ttl,
     auto_delete_ttl |-> a.auto_delete_ttl,
     master_machine_type |-> a.master_machine_type,
     worker_machine_type |-> a.worker_machine_type,
     num_preemptible_workers |-> a.num_preemptible_workers,
     service_account |-> a.service_account,
     artifact_bucket |-> a.artifact_bucket,
     optional_components |-> a.optional_components,
     install_component_gateway |-> a.install_component_gateway,
     aws_conn_id |-> a.aws_conn_id,
     gcp_conn_id |-> a.gcp_conn_id,
     connection |-> GoogleCloudBaseHook(a.gcp_conn_id)]

\* the external calls of __init__
DataProcHelperExtern(a) == <<GcpHookEvent(a.gcp_conn_id)>>

S3AKeys == <<"access.key", "secret.key", "session.token">>

\* the loop without its `value is not None` test
InjectCredentials_unfiltered(properties, pairs, i) ==
    [k \in {"core:fs.s3a." \o pairs[j][1] : j \in i..Len(pairs)} |->
        LET j == CHOOSE j \in i..Len(pairs) : "core:fs.s3a." \o pairs[j][1] = k
        IN  pairs[j][2]]

\* the loop of create_cluster over zip(keys, credentials), from pair i on
RECURSIVE InjectCredentials(_, _, _)
InjectCredentials(properties, pairs, i) ==
    IF i > Len(pairs) THEN properties
    ELSE LET key == pairs[i][1]
             value == pairs[i][2]
         IN  InjectCredentials(
                 IF value # None
                 THEN DictSet(properties, "core:fs.s3a." \o key, value)
                 ELSE properties,
                 pairs, i + 1)

LooksUpCredentials_notnone(self) == self.aws_conn_id # None

\* whether create_cluster looks credentials up: `if self.aws_conn_id:`
LooksUpCredentials(self) == Truthy(self.aws_conn_id)

\* the properties dict of create_cluster
ClusterProperties(self, creds) ==
    IF LooksUpCredentials(self)
    THEN InjectCredentials(EmptyProps, Zip(S3AKeys, creds.triple), 1)
    ELSE EmptyProps

\* the external calls of create_cluster
CreateClusterExtern(self, creds) ==
    IF LooksUpCredentials(self)
    THEN <<AwsLookupEvent(self.aws_conn_id, creds)>>
    ELSE <<>>

\* create_cluster raises when the lookup it makes fails
CreateClusterRaises(self, creds) ==
    LooksUpCredentials(self) /\ ~creds.ok

\* the DataprocClusterCreateOperator create_cluster returns
create_cluster(self, creds) ==
    [task_id |-> "create_dataproc_cluster",
     operator |-> "DataprocClusterCreateOperator",
     cluster_name |-> self.cluster_name,
     gcp_conn_id |-> self.gcp_conn_id,
     service_account |-> self.service_account,
     project_id |-> self.connection.project_id,
     storage_bucket |-> Str("moz-fx-data-prod-dataproc-scratch"),
     num_workers |-> self.num_workers,
     image_version |-> self.image_version,
     properties |-> ClusterProperties(self, creds),
     zone |-> self.zone,
     idle_delete_ttl |-> self.idle_delete_ttl,
     auto_delete_ttl |-> self.auto_delete_ttl,
     master_machine_type |-> self.master_machine_type,
     worker_machine_type |-> self.worker_machine_type,
     num_preemptible_workers |-> self.num_preemptible_workers,
     optional_components |-> self.optional_components,
     install_component_gateway |-> self.install_component_gateway,
     init_actions_uris |->
        <<"gs://" \o Format(self.artifact_bucket) \o "/bootstrap/dataproc_init.sh">>,
     metadata |-> [gcs_connector_version |-> "1.9.16",
                   bigquery_connector_version |-> "0.13.6"]]

\* the connection id is passed where the cluster name belongs
delete_cluster_wrongname(self) ==
    [task_id |-> "delete_dataproc_cluster",
     operator |-> "DataprocClusterDeleteOperator",
     cluster_name |-> self.gcp_conn_id,
     gcp_conn_id |-> self.gcp_conn_id,
     project_id |-> self.connection.project_id]

\* the DataprocClusterDeleteOperator delete_cluster returns
delete_cluster(self) ==
    [task_id |-> "delete_dataproc_cluster",
     operator |-> "DataprocClusterDeleteOperator",
     cluster_name |-> self.cluster_name,
     gcp_conn_id |-> self.gcp_conn_id,
     project_id |-> self.connection.project_id]

---------------------------------------------------------------------------
(* models.DAG and the operators' ordering *)

\* models.DAG(_dag_name, default_args=default_args), no task yet
DAG(dag_id, default_args) ==
    [dag_id |-> dag_id,
     default_args |-> default_args,
     tasks |-> [k \in {} |-> None],
     upstream |-> [k \in {} |-> {}]]

\* an operator constructed inside `with dag:` joins the dag
AddTask(d, op) ==
    [d EXCEPT !.tasks = DictSet(d.tasks, op.task_id, op),
              !.upstream = DictSet(d.upstream, op.task_id, {})]

\* a >> b : b gets a as upstream task
SetDownstream(d, a, b) ==
    [d EXCEPT !.upstream[b.task_id] = @ \cup {a.task_id}]

\* create >> delete, run >> delete: a fan-in instead of the chain
Chain_fan(d, create, run, delete) ==
    SetDownstream(SetDownstream(d, create, delete), run, delete)

\* create >> run >> delete
Chain(d, create, run, delete) ==
    SetDownstream(SetDownstream(d, create, run), run, delete)

Returned(d, ext) == [outcome |-> "returned", dag |-> d, extern |-> ext]
Raised(exc, ext) == [outcome |-> exc, dag |-> NoDag, extern |-> ext]

\* '{}.{}'.format(parent_dag_name, dag_name)
DagName(a) == Format(a.parent_dag_name) \o "." \o Format(a.dag_name)

\* the `with models.DAG(...) as dag:` block shared by the three builders:
\* create_cluster(), the run operator, delete_cluster(), the chain, return
WithDag(a, dataproc_helper, ext, creds, run) ==
    IF CreateClusterRaises(dataproc_helper, creds)
    THEN Raised("CredentialLookupError",
                ext \o CreateClusterExtern(dataproc_helper, creds))
    ELSE LET create_dataproc_cluster == create_cluster(dataproc_helper, creds)
             delete_dataproc_cluster == delete_cluster(dataproc_helper)
             d == AddTask(AddTask(AddTask(DAG(DagName(a), a.default_args),
                                          create_dataproc_cluster),
                                  run),
                          delete_dataproc_cluster)
         IN  Returned(Chain(d, create_dataproc_cluster, run, delete_dataproc_cluster),
                      ext \o CreateClusterExtern(dataproc_helper, creds))

---------------------------------------------------------------------------
(* moz_dataproc_pyspark_runner *)

PysparkMissing_and(a) == a.cluster_name = None /\ a.python_driver_code = None

\* the test that raises AirflowException
PysparkMissing(a) == a.cluster_name = None \/ a.python_driver_code = None

\* the DataProcPySparkOperator
RunPyspark(a) ==
    [task_id |-> "run_dataproc_pyspark",
     operator |-> "DataProcPySparkOperator",
     job_name |-> a.job_name,
     cluster_name |-> a.cluster_name,
     main |-> a.python_driver_code,
     arguments |-> a.py_args,
     gcp_conn_id |-> a.gcp_conn_id]

\* the helper is constructed before the arguments are tested
pyspark_runner_late(a, creds) ==
    IF PysparkMissing(a)
    THEN Raised("AirflowException", DataProcHelperExtern(a))
    ELSE WithDag(a, DataProcHelper(a), DataProcHelperExtern(a), creds,
                 RunPyspark(a))

\* the body of moz_dataproc_pyspark_runner
pyspark_runner(a, creds) ==
    IF PysparkMissing(a)
    THEN Raised("AirflowException", <<>>)
    ELSE WithDag(a, DataProcHelper(a), DataProcHelperExtern(a), creds,
                 RunPyspark(a))

---------------------------------------------------------------------------
(* moz_dataproc_jar_runner *)

JarMissing_noclass(a) == a.cluster_name = None \/ a.jar_urls = None

\* the test that raises AirflowException
JarMissing(a) ==
    a.cluster_name = None \/ a.jar_urls = None \/ a.main_class = None

\* the DataProcSparkOperator of the jar runner
RunJar(a) ==
    [task_id |-> "run_jar_on_dataproc",
     operator |-> "DataProcSparkOperator",
     cluster_name |-> a.cluster_name,
     job_name |-> a.job_name,
     dataproc_spark_jars |-> a.jar_urls,
     main_class |-> a.main_class,
     arguments |-> a.jar_args,
     gcp_conn_id |-> a.gcp_conn_id]

\* the body of moz_dataproc_jar_runner
jar_runner(a, creds) ==
    IF JarMissing(a)
    THEN Raised("AirflowException", <<>>)
    ELSE WithDag(a, DataProcHelper(a), DataProcHelperExtern(a), creds,
                 RunJar(a))

---------------------------------------------------------------------------
(* _format_envvar and moz_dataproc_scriptrunner *)

\* the join leaves a separator after every entry
_format_envvar_trailing(env) ==
    LET items == IF Truthy(env) THEN env.v ELSE <<>>
    IN  Join("", [i \in 1..Len(items) |->
                    Format(items[i][1]) \o "=" \o Format(items[i][2]) \o " "])

\* ' '.join(['{}={}'.format(k, v) for k, v in (env or {}).items()])
_format_envvar(env) ==
    LET items == IF Truthy(env) THEN env.v ELSE <<>>
    IN  Join(" ", [i \in 1..Len(items) |->
                    Format(items[i][1]) \o "=" \o Format(items[i][2])])

ScriptMissing_nocluster(a) == a.job_name = None \/ a.uri = None

\* the test that raises AirflowException
ScriptMissing(a) ==
    a.job_name = None \/ a.uri = None \/ a.cluster_name = None

\* the jar is taken from the default bucket whatever artifact_bucket is
ScriptRunnerJar_defaultbucket(a) ==
    "gs://moz-fx-data-prod-airflow-dataproc-artifacts/bin/script-runner.jar"

\* 'gs://{}/bin/script-runner.jar'.format(artifact_bucket)
ScriptRunnerJar(a) == "gs://" \o Format(a.artifact_bucket) \o "/bin/script-runner.jar"

\* the list starts with the flags, the bootstrap script comes last
ScriptArgs_reordered(a) ==
    <<Str("--job-name"), a.job_name,
      Str("--uri"), a.uri,
      Str("--environment"), Str(_format_envvar(a.env))>>
    \o (IF Truthy(a.arguments) THEN <<Str("--arguments"), a.arguments>> ELSE <<>>)
    \o <<Str("gs://" \o Format(a.artifact_bucket) \o "/bootstrap/airflow_gcp.sh")>>

\* the args list, with the `if arguments:` extension
ScriptArgs(a) ==
    <<Str("gs://" \o Format(a.artifact_bucket) \o "/bootstrap/airflow_gcp.sh"),
      Str("--job-name"), a.job_name,
      Str("--uri"), a.uri,
      Str("--environment"), Str(_format_envvar(a.env))>>
    \o (IF Truthy(a.arguments) THEN <<Str("--arguments"), a.arguments>> ELSE <<>>)

\* the DataProcSparkOperator of the script runner
RunScript(a) ==
    [task_id |-> "run_script_on_dataproc",
     operator |-> "DataProcSparkOperator",
     cluster_name |-> a.cluster_name,
     job_name |-> a.job_name,
     dataproc_spark_jars |-> List(<<Str(ScriptRunnerJar(a))>>),
     main_class |-> Str("com.amazon.elasticmapreduce.scriptrunner.ScriptRunner"),
     arguments |-> List(ScriptArgs(a)),
     gcp_conn_id |-> a.gcp_conn_id]

\* the body of moz_dataproc_scriptrunner
scriptrunner(a, creds) ==
    IF ScriptMissing(a)
    THEN Raised("AirflowException", <<>>)
    ELSE WithDag(a, DataProcHelper(a), DataProcHelperExtern(a), creds,
                 RunScript(a))

---------------------------------------------------------------------------
(* The callers' inputs *)

\* the list object each function's optional_components=['ANACONDA'] default
\* is: one object per function, made when the function is defined
DefaultComponents(kind) == Ref("default:" \o kind)

\* list objects a caller makes and passes
CallerObjects == {"caller:1", "caller:2"}

ClusterNames == {None, Str(""), Str("test-dataproc-cluster")}
ArtifactBuckets == {None, Str("moz-fx-data-prod-airflow-dataproc-artifacts")}
AwsConnIds == {None, Str(""), Str("aws_dev_iam_s3")}
JobNames == {None, Str("J")}
DriverUris == {None, Str("gs://b/s.py")}
ArgLists == {None, List(<<Str("-d"), Str("20200101")>>)}
JarLists == {None, List(<<>>), List(<<Str("gs://b/some_jar.jar")>>)}
MainClasses == {None, Str("com.mozilla.path.to.ClassName")}
Envs == {None, Dict(<<>>),
         Dict(<<<<Str("date"), Str("20200101")>>>>),
         Dict(<<<<Str("k"), Str("v")>>, <<Str("date"), Str("20200101")>>>>)}
ArgStrings == {None, Str(""), Str("-d 1")}

\* the keyword defaults of the three signatures that the callers keep
SignatureDefaults(kind) ==
    [parent_dag_name |-> Str("parent"),
     dag_name |-> IF kind = "pyspark" THEN Str("run_pyspark_on_dataproc")
                  ELSE Str("run_script_on_dataproc"),
     default_args |-> None,
     num_workers |-> 2,
     image_version |-> Str("1.4"),
     zone |-> Str("us-west1-b"),
     idle_delete_ttl |-> IF kind = "pyspark" THEN Str("10800") ELSE Str("14400"),
     auto_delete_ttl |-> IF kind = "pyspark" THEN Str("21600") ELSE Str("28800"),
     master_machine_type |-> Str("n1-standard-8"),
     worker_machine_type |-> Str("n1-standard-4"),
     num_preemptible_workers |-> 0,
     service_account |-> None,
     install_component_gateway |-> TRUE,
     gcp_conn_id |-> Str("google_cloud_airflow_dataproc")]

\* the arguments every builder takes
ClusterArgs(kind, components) ==
    {SignatureDefaults(kind) @@
     [cluster_name |-> c, artifact_bucket |-> b, aws_conn_id |-> w,
      job_name |-> j, optional_components |-> o] :
        c \in ClusterNames, b \in ArtifactBuckets, w \in AwsConnIds,
        j \in JobNames, o \in components}

PysparkArgs(components) ==
    {ca @@ [python_driver_code |-> m, py_args |-> p] :
        ca \in ClusterArgs("pyspark", components),
        m \in DriverUris, p \in ArgLists}

JarArgs(components) ==
    {ca @@ [jar_urls |-> u, main_class |-> m, jar_args |-> p] :
        ca \in ClusterArgs("jar", components),
        u \in JarLists, m \in MainClasses, p \in ArgLists}

ScriptArgsIn(components) ==
    {ca @@ [uri |-> u, env |-> e, arguments |-> g] :
        ca \in ClusterArgs("script", components),
        u \in DriverUris, e \in Envs, g \in ArgStrings}

\* a caller either keeps the default optional_components or passes a list
Components(kind) == {DefaultComponents(kind), Ref("caller:1")}

---------------------------------------------------------------------------
(* The builders as steps, and the engine running the returned DAG *)

InitHeap ==
    [o \in {"default:pyspark", "default:jar", "default:script"} \cup CallerObjects
        |-> <<"ANACONDA">>]

Init ==
    /\ call = NoCall
    /\ outcome = "none"
    /\ dag = NoDag
    /\ extern = <<>>
    /\ ti = <<>>
    /\ prev = NoCall
    /\ heap = InitHeap
    /\ envIn = None
    /\ envOut = None

\* the state after a builder call with result r; a behaviour follows one
\* call (the builders keep nothing between calls) and the run of its DAG
Results(kind, a, r) ==
    /\ call' = [kind |-> kind, args |-> a]
    /\ outcome' = r.outcome
    /\ dag' = r.dag
    /\ extern' = r.extern
    /\ ti' = IF r.outcome = "returned"
             THEN [t \in DOMAIN r.dag.tasks |-> "none"]
             ELSE <<>>

moz_dataproc_pyspark_runner ==
    /\ call = NoCall
    /\ \E a \in PysparkArgs(Components("pyspark")), creds \in CredOutcomes :
          Results("pyspark", a, pyspark_runner(a, creds))
    /\ UNCHANGED <<prev, heap, envIn, envOut>>

moz_dataproc_jar_runner ==
    /\ call = NoCall
    /\ \E a \in JarArgs(Components("jar")), creds \in CredOutcomes :
          Results("jar", a, jar_runner(a, creds))
    /\ UNCHANGED <<prev, heap, envIn, envOut>>

moz_dataproc_scriptrunner ==
    /\ call = NoCall
    /\ \E a \in ScriptArgsIn(Components("script")), creds \in CredOutcomes :
          Results("script", a, scriptrunner(a, creds))
    /\ UNCHANGED <<prev, heap, envIn, envOut>>

\* the engine starts a task once all its upstream tasks succeeded
TaskStart ==
    /\ outcome = "returned"
    /\ \E t \in DOMAIN ti :
          /\ ti[t] = "none"
          /\ \A u \in dag.upstream[t] : ti[u] = "success"
          /\ ti' = [ti EXCEPT ![t] = "running"]
    /\ UNCHANGED <<call, outcome, dag, extern, prev, heap, envIn, envOut>>

\* a running task finishes
TaskFinish ==
    /\ outcome = "returned"
    /\ \E t \in DOMAIN ti :
          /\ ti[t] = "running"
          /\ ti' = [ti EXCEPT ![t] = "success"]
    /\ UNCHANGED <<call, outcome, dag, extern, prev, heap, envIn, envOut>>

Next ==
    \/ moz_dataproc_pyspark_runner
    \/ moz_dataproc_jar_runner
    \/ moz_dataproc_scriptrunner
    \/ TaskStart
    \/ TaskFinish

Spec == Init /\ [][Next]_vars

---------------------------------------------------------------------------
(* Properties of one builder call (Spec) *)

Called == call # NoCall
Kind == call.kind
Args == call.args
IsReturned == outcome = "returned"

CreateId == "create_dataproc_cluster"
DeleteId == "delete_dataproc_cluster"
RunId ==
    CASE Kind = "pyspark" -> "run_dataproc_pyspark"
      [] Kind = "jar"     -> "run_jar_on_dataproc"
      [] OTHER            -> "run_script_on_dataproc"

\* C1: every returned workflow has exactly the three tasks create, run,
\* delete; create has no predecessor, run's only predecessor is create,
\* delete's only predecessor is run; so a run that respects predecessors
\* starts the job only after creation succeeded and starts the deletion
\* only after the job succeeded.
C1_StrictChain ==
    IsReturned =>
        /\ DOMAIN dag.tasks = {CreateId, RunId, DeleteId}
        /\ Cardinality(DOMAIN dag.tasks) = 3
        /\ dag.tasks[CreateId].operator = "DataprocClusterCreateOperator"
        /\ dag.tasks[DeleteId].operator = "DataprocClusterDeleteOperator"
        /\ dag.upstream[CreateId] = {}
        /\ dag.upstream[RunId] = {CreateId}
        /\ dag.upstream[DeleteId] = {RunId}
        /\ (ti[RunId] # "none" => ti[CreateId] = "success")
        /\ (ti[DeleteId] # "none" => ti[RunId] = "success")

C1_Witness ==
    /\ IsReturned
    /\ Kind = "jar"
    /\ ti[CreateId] = "success"
    /\ ti[RunId] = "success"
    /\ ti[DeleteId] = "running"

\* the required fields of each job kind, as the claim lists them
RequiredOmitted ==
    CASE Kind = "pyspark" ->
            Args.cluster_name = None \/ Args.python_driver_code = None
      [] Kind = "jar" ->
            Args.cluster_name = None \/ Args.jar_urls = None
                \/ Args.main_class = None
      [] OTHER ->
            Args.job_name = None \/ Args.uri = None \/ Args.cluster_name = None

\* C2: a call of any of the three builders with a required field omitted
\* (None) ends in the configuration error AirflowException and produces
\* no task and no workflow.
C2_MissingRequiredRaises ==
    (Called /\ RequiredOmitted) =>
        (outcome = "AirflowException" /\ dag = NoDag /\ ti = <<>>)

C2_Witness ==
    /\ Called
    /\ Kind = "script"
    /\ Args.cluster_name # None
    /\ Args.uri # None
    /\ Args.job_name = None
    /\ outcome = "AirflowException"

\* the first seven elements of the script runner's argument list
BaseArgsAsClaimed(l) ==
    /\ Len(l) >= 7
    /\ l[1] = Str("gs://" \o Format(Args.artifact_bucket) \o "/bootstrap/airflow_gcp.sh")
    /\ l[2] = Str("--job-name")
    /\ l[3] = Args.job_name
    /\ l[4] = Str("--uri")
    /\ l[5] = Args.uri
    /\ l[6] = Str("--environment")
    /\ l[7] = Str(_format_envvar(Args.env))

ScriptArgList == dag.tasks[RunId].arguments.v

\* C3 as stated: the list is the seven fixed elements, followed by
\* "--arguments", arguments whenever an argument string was supplied
\* (arguments is not None) and by nothing otherwise.
C3_ArgsWheneverSupplied ==
    (IsReturned /\ Kind = "script") =>
        /\ BaseArgsAsClaimed(ScriptArgList)
        /\ IF Args.arguments # None
           THEN /\ Len(ScriptArgList) = 9
                /\ ScriptArgList[8] = Str("--arguments")
                /\ ScriptArgList[9] = Args.arguments
           ELSE Len(ScriptArgList) = 7

\* C3 amended: the list is the seven fixed elements, followed by
\* "--arguments", arguments when a non-empty argument string was supplied
\* and by nothing when arguments is None or the empty string; it has 7 or
\* 9 elements in this order.
C3_ArgsWhenNonEmpty ==
    (IsReturned /\ Kind = "script") =>
        /\ BaseArgsAsClaimed(ScriptArgList)
        /\ IF Args.arguments # None /\ Args.arguments # Str("")
           THEN /\ Len(ScriptArgList) = 9
                /\ ScriptArgList[8] = Str("--arguments")
                /\ ScriptArgList[9] = Args.arguments
           ELSE Len(ScriptArgList) = 7

C3_Witness ==
    /\ IsReturned
    /\ Kind = "script"
    /\ Args.arguments = Str("-d 1")
    /\ Args.env = Dict(<<<<Str("k"), Str("v")>>, <<Str("date"), Str("20200101")>>>>)
    /\ Len(ScriptArgList) = 9
    /\ ScriptArgList[7] = Str("k=v date=20200101")
    /\ ScriptArgList[9] = Str("-d 1")

\* the credential lookups the call made
AwsLookups ==
    {i \in 1..Len(extern) : extern[i].fn = "AwsHook.get_credentials"}

GcpHooks ==
    {i \in 1..Len(extern) : extern[i].fn = "GoogleCloudBaseHook"}

\* C4: when create_cluster looked credentials up and got a triple, the
\* cluster properties hold a core:fs.s3a.<key> entry, with the field's
\* value, for exactly the non-None fields of the triple.
C4_NonNullCredentialsInjected ==
    (IsReturned /\ AwsLookups # {}) =>
        \A i \in AwsLookups :
            LET triple == extern[i].result.triple
                props == dag.tasks[CreateId].properties
            IN  /\ DOMAIN props =
                      {"core:fs.s3a." \o S3AKeys[j] :
                          j \in {n \in 1..3 : triple[n] # None}}
                /\ \A j \in 1..3 :
                      triple[j] # None =>
                          props["core:fs.s3a." \o S3AKeys[j]] = triple[j]

C4_Witness ==
    /\ IsReturned
    /\ AwsLookups # {}
    /\ \E i \in AwsLookups :
          extern[i].result = CredTriple(Str("AKIA"), Str("SECRET"), None)
    /\ DOMAIN dag.tasks[CreateId].properties =
          {"core:fs.s3a.access.key", "core:fs.s3a.secret.key"}

\* C5: a call that fails with the configuration error made no external
\* call before failing (no GCP connection hook, no credential lookup) and
\* returned no workflow.
C5_ConfigErrorBeforeExternalCalls ==
    outcome = "AirflowException" =>
        (extern = <<>> /\ dag = NoDag /\ ti = <<>>)

C5_Witness ==
    /\ outcome = "AirflowException"
    /\ Kind = "pyspark"
    /\ Args.aws_conn_id = Str("aws_dev_iam_s3")
    /\ Args.cluster_name # None
    /\ Args.python_driver_code = None
    /\ extern = <<>>

\* C7 as stated: the jar builder rejects a null and also an empty jar
\* list, and a null main class, with the configuration error, producing
\* no workflow.
C7_EmptyJarListRejected ==
    (Called /\ Kind = "jar"
        /\ (Args.jar_urls = None \/ Args.jar_urls = List(<<>>)
                \/ Args.main_class = None)) =>
        (outcome = "AirflowException" /\ dag = NoDag)

\* C7 amended: the jar builder raises the configuration error exactly
\* when cluster_name, jar_urls or main_class is None; an empty jar list
\* is accepted like any other list and reaches the run task unchanged.
C7_NullJarListRejected ==
    (Called /\ Kind = "jar") =>
        /\ (outcome = "AirflowException") <=>
               (Args.cluster_name = None \/ Args.jar_urls = None
                    \/ Args.main_class = None)
        /\ outcome = "AirflowException" => dag = NoDag
        /\ IsReturned =>
               /\ dag.tasks[RunId].dataproc_spark_jars = Args.jar_urls
               /\ dag.tasks[RunId].main_class = Args.main_class

C7_Witness ==
    /\ IsReturned
    /\ Kind = "jar"
    /\ Args.jar_urls = List(<<>>)
    /\ dag.tasks[RunId].dataproc_spark_jars = List(<<>>)

\* set and non-empty
Present(x) == x # None /\ x # Str("")

\* C8 as stated: no create or delete descriptor is built from a
\* configuration whose cluster name or artifact location is missing or
\* empty; the build fails with the configuration error instead.
C8_NameAndArtifactValidated ==
    IsReturned =>
        (Present(Args.cluster_name) /\ Present(Args.artifact_bucket))

\* C8 amended: create_cluster validates nothing itself; the builders
\* reject a None cluster name before the helper exists, so every create
\* and delete descriptor carries the caller's non-None cluster name; an
\* empty cluster name and a None artifact location are accepted, the
\* init-action URI being formatted from the artifact location as it is.
C8_OnlyNullNameRejected ==
    /\ IsReturned =>
          /\ Args.cluster_name # None
          /\ dag.tasks[CreateId].cluster_name = Args.cluster_name
          /\ dag.tasks[DeleteId].cluster_name = Args.cluster_name
          /\ dag.tasks[CreateId].init_actions_uris =
                <<"gs://" \o Format(Args.artifact_bucket)
                    \o "/bootstrap/dataproc_init.sh">>
    /\ (Called /\ ~RequiredOmitted) => outcome # "AirflowException"

C8_Witness ==
    /\ IsReturned
    /\ Args.cluster_name = Str("")
    /\ Args.artifact_bucket = None
    /\ dag.tasks[CreateId].init_actions_uris =
          <<"gs://None/bootstrap/dataproc_init.sh">>
    /\ dag.tasks[DeleteId].cluster_name = Str("")

\* C10 as stated: a build that returns a workflow made at most one
\* external read, the credential lookup: exactly one when an auxiliary
\* credential reference was supplied, none otherwise, and nothing else.
C10_AtMostOneExternalRead ==
    IsReturned =>
        /\ Len(extern) <= 1
        /\ Cardinality(AwsLookups) = (IF Args.aws_conn_id # None THEN 1 ELSE 0)
        /\ \A i \in 1..Len(extern) : i \in AwsLookups

\* C10 amended: a build that returns a workflow made at most two external
\* reads: first the GCP connection hook, opened exactly once by the
\* helper's construction, then the credential lookup, made exactly once
\* when aws_conn_id is a non-empty string and not at all when it is None
\* or empty; building the run and delete descriptors adds none.
C10_HookThenOptionalLookup ==
    IsReturned =>
        /\ Len(extern) <= 2
        /\ Cardinality(GcpHooks) = 1
        /\ extern[1] = GcpHookEvent(Args.gcp_conn_id)
        /\ Cardinality(AwsLookups) =
              (IF Args.aws_conn_id # None /\ Args.aws_conn_id # Str("")
               THEN 1 ELSE 0)
        /\ \A i \in AwsLookups : extern[i].conn_id = Args.aws_conn_id
        /\ \A i \in 1..Len(extern) : i \in GcpHooks \cup AwsLookups

C10_Witness ==
    /\ IsReturned
    /\ Args.aws_conn_id = Str("aws_dev_iam_s3")
    /\ Len(extern) = 2
    /\ extern[2].fn = "AwsHook.get_credentials"

---------------------------------------------------------------------------
(* _format_envvar on its own (SpecEnv) *)

MaxEnvLen == 2

EnvKeys == {"date", "k", "x"}
EnvValues == {"20200101", "v", ""}

\* the mappings of at most MaxEnvLen entries, as ordered items
EnvItems ==
    UNION {{items \in [1..n -> {<<Str(k), Str(v)>> : k \in EnvKeys, v \in EnvValues}] :
               \A i, j \in 1..n : i # j => items[i][1] # items[j][1]} :
           n \in 0..MaxEnvLen}

EnvInputs == {None} \cup {Dict(items) : items \in EnvItems}

InitEnv ==
    /\ call = NoCall
    /\ outcome = "none"
    /\ dag = NoDag
    /\ extern = <<>>
    /\ ti = <<>>
    /\ prev = NoCall
    /\ heap = InitHeap
    /\ envIn \in EnvInputs
    /\ envOut = None

\* one call _format_envvar(envIn)
FormatEnvvar ==
    /\ envOut = None
    /\ envOut' = Str(_format_envvar(envIn))
    /\ UNCHANGED <<call, outcome, dag, extern, ti, prev, heap, envIn>>

NextEnv == FormatEnvvar

SpecEnv == InitEnv /\ [][NextEnv]_vars

\* the entries of items as the claim words them: the flattening of all
\* but the last entry, one space, then the last entry as key=value
RECURSIVE EntriesSpaced(_)
EntriesSpaced(items) ==
    LET n == Len(items)
        last == items[n][1].v \o "=" \o items[n][2].v
    IN  IF n = 1 THEN last
        ELSE EntriesSpaced(SubSeq(items, 1, n - 1)) \o " " \o last

RECURSIVE EntriesLength(_)
EntriesLength(items) ==
    IF items = <<>> THEN 0
    ELSE Len(Head(items)[1].v) + 1 + Len(Head(items)[2].v)
            + EntriesLength(Tail(items))

\* C9: None and the empty mapping flatten to the empty string; the
\* mapping {"date": "20200101"} flattens to "date=20200101"; in general
\* the result is the entries as key=value in iteration order with exactly
\* one space between neighbours and nothing before the first or after the
\* last entry.
C9_EnvFlattening ==
    envOut # None =>
        /\ (envIn = None \/ envIn = Dict(<<>>)) => envOut = Str("")
        /\ envIn = Dict(<<<<Str("date"), Str("20200101")>>>>) =>
               envOut = Str("date=20200101")
        /\ (envIn # None /\ envIn.v # <<>>) =>
               /\ envOut = Str(EntriesSpaced(envIn.v))
               /\ Len(envOut.v) = EntriesLength(envIn.v) + Len(envIn.v) - 1

C9_Witness ==
    /\ envIn = Dict(<<<<Str("k"), Str("v")>>, <<Str("date"), Str("20200101")>>>>)
    /\ envOut = Str("k=v date=20200101")

---------------------------------------------------------------------------
(* Two calls and the list objects their workflows hold (SpecShare) *)

MaxListLen == 2

\* the calls of SpecShare: every required argument given, no auxiliary
\* credentials; optional_components either omitted (the signature's
\* default object) or a list the caller made for this call
ShareArgs(kind, components) ==
    {a \in (CASE kind = "pyspark" -> PysparkArgs(components)
              [] kind = "jar"     -> JarArgs(components)
              [] OTHER            -> ScriptArgsIn(components)) :
        /\ a.cluster_name = Str("test-dataproc-cluster")
        /\ a.artifact_bucket # None
        /\ a.aws_conn_id = None
        /\ a.job_name # None
        /\ kind = "pyspark" => (a.python_driver_code # None /\ a.py_args # None)
        /\ kind = "jar" => (a.jar_urls = List(<<Str("gs://b/some_jar.jar")>>)
                            /\ a.main_class # None /\ a.jar_args # None)
        /\ kind = "script" => (a.uri # None /\ a.env = None /\ a.arguments # None)}

Build(kind, a, creds) ==
    CASE kind = "pyspark" -> pyspark_runner(a, creds)
      [] kind = "jar"     -> jar_runner(a, creds)
      [] OTHER            -> scriptrunner(a, creds)

Kinds == {"pyspark", "jar", "script"}

InitShare == Init

\* the first call of a builder
FirstCall ==
    /\ call = NoCall
    /\ \E kind \in Kinds :
         \E a \in ShareArgs(kind, {DefaultComponents(kind), Ref("caller:1")}) :
            Results(kind, a, Build(kind, a, CredFail))
    /\ UNCHANGED <<prev, heap, envIn, envOut>>

\* a second call, the first workflow being kept by the caller
SecondCall ==
    /\ call # NoCall
    /\ prev = NoCall
    /\ prev' = [call |-> call, outcome |-> outcome, dag |-> dag]
    /\ \E kind \in Kinds :
         \E a \in ShareArgs(kind, {DefaultComponents(kind), Ref("caller:2")}) :
            Results(kind, a, Build(kind, a, CredFail))
    /\ UNCHANGED <<heap, envIn, envOut>>

\* the list objects reachable from the payloads of workflow d
Reachable(d) ==
    IF d = NoDag THEN {}
    ELSE {d.tasks[t].optional_components.v :
            t \in {x \in DOMAIN d.tasks : d.tasks[x].operator = "DataprocClusterCreateOperator"}}

\* the caller appends to a list held by a payload of a workflow it got
MutatePayload ==
    /\ \E o \in Reachable(dag) \cup (IF prev = NoCall THEN {} ELSE Reachable(prev.dag)) :
          /\ Len(heap[o]) < MaxListLen
          /\ heap' = [heap EXCEPT ![o] = Append(@, "JUPYTER")]
    /\ UNCHANGED <<call, outcome, dag, extern, ti, prev, envIn, envOut>>

NextShare ==
    \/ FirstCall
    \/ SecondCall
    \/ MutatePayload

SpecShare == InitShare /\ [][NextShare]_vars

\* workflow d with the list references of its payloads replaced by the
\* lists' contents
Deref(d) ==
    [d EXCEPT !.tasks =
        [t \in DOMAIN d.tasks |->
            IF d.tasks[t].operator = "DataprocClusterCreateOperator"
            THEN [d.tasks[t] EXCEPT !.optional_components = List(heap[@.v])]
            ELSE d.tasks[t]]]

\* the two calls had identical inputs: same builder, same arguments, the
\* optional_components lists being equal element by element
IdenticalInputs ==
    /\ prev # NoCall
    /\ prev.call.kind = call.kind
    /\ [prev.call.args EXCEPT !.optional_components = None]
          = [call.args EXCEPT !.optional_components = None]
    /\ (prev.call.args.optional_components = DefaultComponents(call.kind))
          <=> (call.args.optional_components = DefaultComponents(call.kind))

\* C6: two calls of one builder with identical inputs, defaults included,
\* return workflows that are structurally equal and share no mutable
\* value: no list object reachable from the payloads of one is reachable
\* from the payloads of the other.
C6_IndependentWorkflows ==
    (IdenticalInputs /\ prev.outcome = "returned" /\ IsReturned) =>
        /\ Reachable(prev.dag) \cap Reachable(dag) = {}
        /\ heap = InitHeap => Deref(prev.dag) = Deref(dag)

---------------------------------------------------------------------------
(* The script runner's fixed artifacts (Spec) *)

\* C11: the run task of every workflow moz_dataproc_scriptrunner returns
\* submits the fixed runner, never the target script: its jar list is the
\* single jar gs://<artifact_bucket>/bin/script-runner.jar, its main class
\* is com.amazon.elasticmapreduce.scriptrunner.ScriptRunner, the caller's
\* uri is the element after "--uri" and stands nowhere else than where the
\* caller's own job name and argument string stand, and the jar, the
\* bootstrap script and the cluster's init script are all under the
\* caller's one artifact bucket.
C11_ScriptRunnerIndirection ==
    (IsReturned /\ Kind = "script") =>
        LET run == dag.tasks[RunId]
            bucket == "gs://" \o Format(Args.artifact_bucket)
        IN  /\ run.operator = "DataProcSparkOperator"
            /\ run.dataproc_spark_jars =
                  List(<<Str(bucket \o "/bin/script-runner.jar")>>)
            /\ run.main_class =
                  Str("com.amazon.elasticmapreduce.scriptrunner.ScriptRunner")
            /\ run.main_class # Args.uri
            /\ \A i \in 1..Len(run.dataproc_spark_jars.v) :
                  run.dataproc_spark_jars.v[i] # Args.uri
            /\ ScriptArgList[1] = Str(bucket \o "/bootstrap/airflow_gcp.sh")
            /\ ScriptArgList[4] = Str("--uri")
            /\ ScriptArgList[5] = Args.uri
            /\ \A i \in (1..Len(ScriptArgList)) \ {3, 5, 9} :
                  ScriptArgList[i] # Args.uri
            /\ dag.tasks[CreateId].init_actions_uris =
                  <<bucket \o "/bootstrap/dataproc_init.sh">>

C11_Witness ==
    /\ IsReturned
    /\ Kind = "script"
    /\ Args.artifact_bucket = None
    /\ Args.uri = Str("gs://b/s.py")
    /\ dag.tasks[RunId].dataproc_spark_jars =
          List(<<Str("gs://None/bin/script-runner.jar")>>)
    /\ ScriptArgList[1] = Str("gs://None/bootstrap/airflow_gcp.sh")
    /\ ScriptArgList[5] = Str("gs://b/s.py")
    /\ dag.tasks[CreateId].init_actions_uris =
          <<"gs://None/bootstrap/dataproc_init.sh">>

---------------------------------------------------------------------------
(* One cluster name through the workflow (Spec) *)

\* C12: in every workflow any of the three builders returns, the create
\* task, the run task and the delete task name one and the same cluster,
\* the cluster_name the caller passed: the job is submitted to the cluster
\* that is created, and the teardown targets that cluster and no other.
C12_SameClusterName ==
    IsReturned =>
        /\ dag.tasks[CreateId].cluster_name = Args.cluster_name
        /\ dag.tasks[RunId].cluster_name = Args.cluster_name
        /\ dag.tasks[DeleteId].cluster_name = Args.cluster_name
        /\ \A t, u \in DOMAIN dag.tasks :
              dag.tasks[t].cluster_name = dag.tasks[u].cluster_name

C12_Witness ==
    /\ IsReturned
    /\ Kind = "pyspark"
    /\ Args.cluster_name = Str("test-dataproc-cluster")
    /\ dag.tasks[CreateId].cluster_name = Str("test-dataproc-cluster")
    /\ dag.tasks[RunId].cluster_name = Str("test-dataproc-cluster")
    /\ dag.tasks[DeleteId].cluster_name = Str("test-dataproc-cluster")
    /\ ti[DeleteId] = "success"

====
